---- MODULE Spec2Model ----
(***************************************************************************)
(* The Salesforce quote pipeline of sc-quote: token exchange, paginated    *)
(* query and record transformation, in its two variants:                   *)
(*   "vercel"  src/api/salesforce.js  (the serverless handler)             *)
(*   "local"   src/server.js          (the local development server)       *)
(* One invocation is a run r \in Runs.  An async function is split at its  *)
(* awaits: one action per segment that runs without yielding.  The remote  *)
(* endpoints are the environment (TokenReply, PageReply, NetworkFailure).  *)
(* The text of error messages and the fetchedAt clock value are left out.  *)
(***************************************************************************)
EXTENDS Integers, Sequences, FiniteSets, TLC

(* ------------------------------ bounds --------------------------------- *)
\* Pages the remote serves to one run before it must stop continuing.
MaxPages == 3
\* Records on one page.
MaxPageLen == 2
\* Credential fields that may be missing from the configuration at once.
MaxMissing == 1
\* Amounts 0..MaxAmount (and their negatives) in the transformer's inputs.
MaxAmount == 2
\* Pages the remote serves to one run when two runs are in progress together.
MaxPairPages == 2
\* and the records on one such page.
MaxPairPageLen == 1
\* Times the transformer is applied to one input.
MaxCalls == 2

Runs == {"r1", "r2"}
Variants == {"vercel", "local"}
Methods == {"GET", "OPTIONS", "POST"}
CredFields == {"SF_CLIENT_ID", "SF_CLIENT_SECRET", "SF_REFRESH_TOKEN", "SF_INSTANCE_URL"}
\* The zone of the process, read by server.js's formatTimestamp only.
Zones == {"UTC", "America/New_York", "Asia/Tokyo"}

\* An optional value (null, undefined or absent in JS) is a sequence of
\* length 0 or 1.
None == << >>
Some(v) == << v >>
IsSome(o) == o # << >>
\* JS truthiness of an optional string: null, undefined and "" are falsy.
Truthy(o) == o # << >> /\ o[1] # ""

\* The(S) is the element of a singleton.  The({ f(x) : x \in { e } }) is
\* LET x == e IN f(x) with e evaluated once.
The(S) == CHOOSE x \in S : TRUE

(* ------------------------- strings and numbers ------------------------- *)
Digits == {"0", "1", "2", "3", "4", "5", "6", "7", "8", "9"}
DigitVal(c) ==
    CASE c = "0" -> 0 [] c = "1" -> 1 [] c = "2" -> 2 [] c = "3" -> 3
      [] c = "4" -> 4 [] c = "5" -> 5 [] c = "6" -> 6 [] c = "7" -> 7
      [] c = "8" -> 8 [] c = "9" -> 9

CharAt(s, i) == SubSeq(s, i, i)

\* String.prototype.split(sep) for a one-character separator.
RECURSIVE SplitFrom(_, _, _, _)
SplitFrom(s, sep, i, cur) ==
    IF i > Len(s) THEN << cur >>
    ELSE IF CharAt(s, i) = sep THEN << cur >> \o SplitFrom(s, sep, i + 1, "")
    ELSE SplitFrom(s, sep, i + 1, cur \o CharAt(s, i))
Split(s, sep) == SplitFrom(s, sep, 1, "")

\* Destructuring  const [a, b, c] = arr : a missing element is undefined.
Elem(arr, i) == IF i <= Len(arr) THEN arr[i] ELSE "undefined"

\* parseInt(s, 10): the value of the longest prefix of decimal digits, NaN
\* when there is none.  (The pieces of a '-' split carry no sign.)
RECURSIVE DigitPrefix(_, _, _)
DigitPrefix(s, i, acc) ==
    IF i > Len(s) \/ CharAt(s, i) \notin Digits THEN acc
    ELSE DigitPrefix(s, i + 1, acc * 10 + DigitVal(CharAt(s, i)))
parseInt(s) ==
    IF Len(s) = 0 \/ CharAt(s, 1) \notin Digits
    THEN [nan |-> TRUE, val |-> 0]
    ELSE [nan |-> FALSE, val |-> DigitPrefix(s, 1, 0)]

\* A number inside a template literal, and Number.prototype.toString().
NumToString(n) == IF n.nan THEN "NaN" ELSE ToString(n.val)

Pad2(n) == IF n < 10 THEN "0" \o ToString(n) ELSE ToString(n)
Pad4(n) ==
    IF n < 10 THEN "000" \o ToString(n)
    ELSE IF n < 100 THEN "00" \o ToString(n)
    ELSE IF n < 1000 THEN "0" \o ToString(n)
    ELSE ToString(n)

(* --------------------------- the transformer --------------------------- *)
formatDateMDY_swapped(isoDate) ==
    IF ~Truthy(isoDate) THEN ""
    ELSE The({ The({ NumToString(parseInt(day)) \o "/" \o NumToString(parseInt(month))
                         \o "/" \o year :
                     year \in { Elem(parts, 1) }, month \in { Elem(parts, 2) },
                     day \in { Elem(parts, 3) } }) :
               parts \in { Split(isoDate[1], "-") } })
\* const [year, month, day] = isoDate.split('-');
\* `${parseInt(month, 10)}/${parseInt(day, 10)}/${year}`
formatDateMDY(isoDate) ==
    IF ~Truthy(isoDate) THEN ""
    ELSE The({ The({ NumToString(parseInt(month)) \o "/" \o NumToString(parseInt(day))
                         \o "/" \o year :
                     year \in { Elem(parts, 1) }, month \in { Elem(parts, 2) },
                     day \in { Elem(parts, 3) } }) :
               parts \in { Split(isoDate[1], "-") } })

\* const [year, month] = isoDate.split('-');  `${parseInt(month, 10)}/1/${year}`
deriveCloseMonth(isoDate) ==
    IF ~Truthy(isoDate) THEN ""
    ELSE The({ The({ NumToString(parseInt(month)) \o "/1/" \o year :
                     year \in { Elem(parts, 1) }, month \in { Elem(parts, 2) } }) :
               parts \in { Split(isoDate[1], "-") } })

(* ------------- Date parsing and toLocaleString (the runtime) ------------ *)
\* Days since 1970-01-01 of a civil date, and back (proleptic Gregorian).
DaysFromCivil(y, m, d) ==
    The({ LET era == yy \div 400
              yoe == yy - era * 400
              doy == (153 * mp + 2) \div 5 + d - 1
              doe == yoe * 365 + yoe \div 4 - yoe \div 100 + doy
          IN  era * 146097 + doe - 719468 :
          yy \in { IF m <= 2 THEN y - 1 ELSE y },
          mp \in { IF m > 2 THEN m - 3 ELSE m + 9 } })

CivilFromDays(z0) ==
    The({ LET era == z \div 146097
              doe == z - era * 146097
              yoe == (doe - doe \div 1460 + doe \div 36524 - doe \div 146096) \div 365
              doy == doe - (365 * yoe + yoe \div 4 - yoe \div 100)
              mp == (5 * doy + 2) \div 153
              d == doy - (153 * mp + 2) \div 5 + 1
              m == IF mp < 10 THEN mp + 3 ELSE mp - 9
              y == yoe + era * 400
          IN  [year |-> IF m <= 2 THEN y + 1 ELSE y, month |-> m, day |-> d] :
          z \in { z0 + 719468 } })

\* 0 = Sunday; 1970-01-01 was a Thursday.
DayOfWeek(days) == (days + 4) % 7
SundayOnOrAfter(days) == days + ((7 - DayOfWeek(days)) % 7)

\* new Date(iso) for "YYYY-MM-DDTHH:MM:SS.sss+hhmm": minutes since the epoch
\* (seconds are not rendered), NaN for anything else.
ParseDate(s) ==
    IF Len(s) # 28 \/ CharAt(s, 11) # "T" \/ CharAt(s, 24) \notin {"+", "-"}
    THEN [nan |-> TRUE, val |-> 0]
    ELSE The({ [nan |-> FALSE,
                val |-> DaysFromCivil(y, mo, d) * 1440 + h * 60 + mi - sgn * off] :
               y \in { parseInt(SubSeq(s, 1, 4)).val },
               mo \in { parseInt(SubSeq(s, 6, 7)).val },
               d \in { parseInt(SubSeq(s, 9, 10)).val },
               h \in { parseInt(SubSeq(s, 12, 13)).val },
               mi \in { parseInt(SubSeq(s, 15, 16)).val },
               off \in { parseInt(SubSeq(s, 25, 26)).val * 60
                            + parseInt(SubSeq(s, 27, 28)).val },
               sgn \in { IF CharAt(s, 24) = "-" THEN -1 ELSE 1 } })

\* Offset from UTC, in minutes, of a zone at an instant.  America/New_York
\* (rules since 2007): daylight time from the second Sunday of March,
\* 2:00 EST, to the first Sunday of November, 2:00 EDT.
ZoneOffset(zone, minutes) ==
    CASE zone = "UTC" -> 0
      [] zone = "Asia/Tokyo" -> 540
      [] zone = "America/New_York" ->
            The({ LET dstStart == SundayOnOrAfter(DaysFromCivil(y, 3, 8)) * 1440 + 7 * 60
                      dstEnd == SundayOnOrAfter(DaysFromCivil(y, 11, 1)) * 1440 + 6 * 60
                  IN  IF minutes >= dstStart /\ minutes < dstEnd THEN -240 ELSE -300 :
                  y \in { CivilFromDays(minutes \div 1440).year } })

\* toLocaleString('en-US', {month, day, year: 'numeric', hour: 'numeric',
\* minute: '2-digit', hour12: true, timeZone: zone}).
RenderLocal(civil, hour, minute) ==
    LET hour12 == IF hour % 12 = 0 THEN 12 ELSE hour % 12
    IN  ToString(civil.month) \o "/" \o ToString(civil.day) \o "/"
            \o ToString(civil.year) \o ", " \o ToString(hour12) \o ":"
            \o Pad2(minute) \o (IF hour < 12 THEN " AM" ELSE " PM")
ToLocaleString(date, zone) ==
    IF date.nan THEN "Invalid Date"
    ELSE The({ The({ RenderLocal(civil, (local % 1440) \div 60, local % 60) :
                     civil \in { CivilFromDays(local \div 1440) } }) :
               local \in { date.val + ZoneOffset(zone, date.val) } })

\* src/api/salesforce.js fixes the zone; src/server.js passes none, and the
\* runtime then renders in the zone of the process.
formatTimestamp(isoTimestamp, zone) ==
    IF ~Truthy(isoTimestamp) THEN ""
    ELSE The({ ToLocaleString(date, zone) : date \in { ParseDate(isoTimestamp[1]) } })

TimestampZone(v, processZone) ==
    IF v = "vercel" THEN "America/New_York" ELSE processZone

\* One element of records.map(record => ({...})).
TransformRecord_noDefaults(record, zone) ==
    [Amount |-> IF IsSome(record.Amount) THEN ToString(record.Amount[1]) ELSE "",
     CloseDate |-> formatDateMDY(record.CloseDate),
     QuoteSent |-> formatTimestamp(record.Quote_sent_TImestamp_2__c, zone),
     Stage |-> IF Truthy(record.StageName) THEN record.StageName[1] ELSE "",
     Owner |-> IF IsSome(record.Owner) /\ Truthy(record.Owner[1].Name)
               THEN record.Owner[1].Name[1] ELSE "",
     CloseMonth |-> deriveCloseMonth(record.CloseDate)]
TransformRecord(record, zone) ==
    [Amount |-> IF IsSome(record.Amount) THEN ToString(record.Amount[1]) ELSE "0",
     CloseDate |-> formatDateMDY(record.CloseDate),
     QuoteSent |-> formatTimestamp(record.Quote_sent_TImestamp_2__c, zone),
     Stage |-> IF Truthy(record.StageName) THEN record.StageName[1] ELSE "",
     Owner |-> IF IsSome(record.Owner) /\ Truthy(record.Owner[1].Name)
               THEN record.Owner[1].Name[1] ELSE "Unknown",
     CloseMonth |-> deriveCloseMonth(record.CloseDate)]

\* The records mapped in reverse order.
transformData_reversed(records, zone) ==
    [i \in 1..Len(records) |->
        The({ TransformRecord(record, zone) : record \in { records[Len(records) + 1 - i] } })]
transformData(records, zone) ==
    [i \in 1..Len(records) |-> The({ TransformRecord(record, zone) : record \in { records[i] } })]

\* The output keys, in the order of the object literal.
OutputKey ==
    [Amount |-> "Amount", CloseDate |-> "Close Date",
     QuoteSent |-> "Quote sent TImestamp 2", Stage |-> "Stage",
     Owner |-> "Opportunity Owner", CloseMonth |-> "Close Month"]

(* ------------------------------- state --------------------------------- *)
VARIABLES
    variant,         \* which of the two programs is deployed
    env,             \* env[f]: credential field f is set to a non-empty string
    processZone,     \* the time zone of the process
    callers,         \* the runs that clients start
    pc,              \* pc[r]: where run r stands
    method,          \* method[r]: the HTTP method of the inbound request
    accessToken,     \* accessToken[r]: optional string (None is undefined)
    allRecords,      \* allRecords[r]: the accumulator
    nextRecordsUrl,  \* nextRecordsUrl[r]: optional string (None is null)
    headers,         \* headers[r]: response headers set with setHeader
    out,             \* out[r]: the responses sent to the caller, in order
    sent,            \* sent[r]: the outbound requests issued, in order
    inbox,           \* inbox[r]: the reply the pending fetch resolved with
    tokenReply,      \* tokenReply[r]: the token endpoint's reply, once delivered
    pageReplies,     \* pageReplies[r]: number of page replies delivered
    served,          \* served[r]: number of records the remote has put on pages
    cleanPages,      \* cleanPages[r]: every page reply so far was a 2xx JSON object
    allContinued,    \* allContinued[r]: and every one carried a continuation path
    lastContinued,   \* lastContinued[r]: the last page reply carried one
    failedStatus,    \* failedStatus[r]: status of the first non-2xx page reply, else 0
    sawFailure,      \* sawFailure[r]: some reply so far had a non-2xx status
    tIn,             \* the transformer's input sequence (SpecTransform)
    tDate,           \* << y, m, d >> the CloseDate of tIn[1] was written from, or << >>
    tZone,           \* the zone the transformer renders timestamps in
    tOut             \* the transformer's outputs, one per application

deployVars == << variant, env, processZone, callers >>
runVars == << pc, method, accessToken, allRecords, nextRecordsUrl, headers, out, sent >>
netVars ==
    << inbox, tokenReply, pageReplies, served, cleanPages, allContinued, lastContinued,
       failedStatus, sawFailure >>
transformVars == << tIn, tDate, tZone, tOut >>
vars == << deployVars, runVars, netVars, transformVars >>

(* --------------------------- configuration ----------------------------- *)
\* process.env.X, or the text a template literal or URLSearchParams makes of
\* an undefined one.
EnvText(f) == IF env[f] THEN "<" \o f \o ">" ELSE "undefined"

TokenUrl == "https://login.salesforce.com/services/oauth2/token"
QueryPath == "/services/data/v59.0/query?q=SELECT..."
CursorPath(k) == "/services/data/v59.0/query/cursor-" \o ToString(k)
QueryUrl == EnvText("SF_INSTANCE_URL") \o QueryPath

CorsVercel == {"Access-Control-Allow-Origin", "Access-Control-Allow-Methods",
               "Access-Control-Allow-Headers"}
CorsLocal == {"Access-Control-Allow-Origin", "Access-Control-Allow-Methods"}

(* ------------------------ requests and replies ------------------------- *)
Ok(status) == status >= 200 /\ status <= 299

TokenStatuses == {200, 400}
PageStatuses == {200, 404, 503}

\* A settled fetch.  kind: "object" (a JSON object or array; a field the body
\* lacks is None), "null" (the JSON text null), "invalid" (not JSON),
\* "rejected" (the fetch promise rejected: no response at all).
Reply(status, kind, token, hasRecords, records, next) ==
    [status |-> status, kind |-> kind, token |-> token,
     hasRecords |-> hasRecords, records |-> records, next |-> next]
Rejected == Reply(0, "rejected", None, FALSE, << >>, None)

TokenOf(r) == "token-" \o r

TokenReplies(r) ==
    { Reply(s, k, None, FALSE, << >>, None) : s \in TokenStatuses, k \in {"invalid", "null"} }
    \cup { Reply(s, "object", t, FALSE, << >>, None) :
             s \in TokenStatuses, t \in {None, Some(TokenOf(r))} }

\* The raw records of the remote's result set, by position.
RawPool ==
    << [Amount |-> None, CloseDate |-> None, Quote_sent_TImestamp_2__c |-> None,
        StageName |-> None, Owner |-> None],
       [Amount |-> Some(1500), CloseDate |-> Some("2023-07-20"),
        Quote_sent_TImestamp_2__c |-> Some("2023-08-28T12:07:00.000+0000"),
        StageName |-> Some("Closed Won"), Owner |-> Some([Name |-> Some("Ann")])],
       [Amount |-> Some(0), CloseDate |-> Some("2024-01-05"),
        Quote_sent_TImestamp_2__c |-> Some("2023-01-15T03:30:00.000+0000"),
        StageName |-> Some(""), Owner |-> Some([Name |-> None])] >>
WithId(raw, id) ==
    [Id |-> id, Amount |-> raw.Amount, CloseDate |-> raw.CloseDate,
     Quote_sent_TImestamp_2__c |-> raw.Quote_sent_TImestamp_2__c,
     StageName |-> raw.StageName, Owner |-> raw.Owner]
\* The result sets of the two runs start at different records of the pool.
RunOffset(r) == IF r = "r1" THEN 0 ELSE 1
RawOf(r, i) ==
    WithId(RawPool[((i - 1 + RunOffset(r)) % Len(RawPool)) + 1], r \o "-" \o ToString(i))
\* Records from + 1 .. from + n of the result set of run r.
RawSlice(r, from, n) == [i \in 1..n |-> RawOf(r, from + i)]

\* What the query endpoint may answer to the page request of run r: any
\* status with any body; a body that holds records holds the next ones of
\* the result set.
\* With two runs in progress the remote fails pages with one status only.
PageStatusSet == IF Cardinality(callers) > 1 THEN {200, 503} ELSE PageStatuses
PageLimit == IF Cardinality(callers) > 1 THEN MaxPairPages ELSE MaxPages
PageLenLimit == IF Cardinality(callers) > 1 THEN MaxPairPageLen ELSE MaxPageLen
PageReplies(r) ==
    { Reply(s, k, None, FALSE, << >>, None) : s \in PageStatusSet, k \in {"invalid", "null"} }
    \cup { Reply(s, "object", None, FALSE, << >>, nx) :
             s \in PageStatusSet,
             nx \in {None} \cup (IF pageReplies[r] + 1 < PageLimit
                                 THEN {Some(CursorPath(pageReplies[r] + 1))} ELSE {}) }
    \cup { Reply(s, "object", None, TRUE, RawSlice(r, served[r], n), nx) :
             s \in PageStatusSet, n \in 0..PageLenLimit,
             nx \in {None} \cup (IF pageReplies[r] + 1 < PageLimit
                                 THEN {Some(CursorPath(pageReplies[r] + 1))} ELSE {}) }

TokenPost ==
    [method |-> "POST", url |-> TokenUrl, auth |-> "",
     body |-> "grant_type=refresh_token&client_id=" \o EnvText("SF_CLIENT_ID")
                 \o "&client_secret=" \o EnvText("SF_CLIENT_SECRET")
                 \o "&refresh_token=" \o EnvText("SF_REFRESH_TOKEN")]
\* `Bearer ${accessToken}`
Bearer(token) == "Bearer " \o (IF IsSome(token) THEN token[1] ELSE "undefined")
\* The token of the first run's exchange kept and sent by every run.
QueryGet_cachedToken(url, token) ==
    [method |-> "GET", url |-> url, body |-> "",
     auth |-> Bearer(IF IsSome(tokenReply["r1"]) /\ Truthy(tokenReply["r1"][1].token)
                     THEN tokenReply["r1"][1].token ELSE token)]
QueryGet(url, token) == [method |-> "GET", url |-> url, auth |-> Bearer(token), body |-> ""]

(* ------------------------------ responses ------------------------------ *)
ErrorEnvelope(status, code) ==
    [status |-> status, body |-> "json", success |-> FALSE, code |-> code,
     data |-> << >>, recordCount |-> 0]
SuccessEnvelope(data) ==
    [status |-> 200, body |-> "json", success |-> TRUE, code |-> "",
     data |-> data, recordCount |-> Len(data)]
EmptyResponse(status) ==
    [status |-> status, body |-> "empty", success |-> FALSE, code |-> "",
     data |-> << >>, recordCount |-> 0]

\* The locals of one run, as one record: a segment of code maps it to the
\* locals it leaves behind.
\* res.json(...) / res.end(...): the response leaves with the headers set so far.
Send(st, resp) ==
    [st EXCEPT !.out = Append(@, [resp |-> resp, cors |-> st.headers]), !.pc = "done"]
\* await fetch(...): the request leaves and the run waits for it to settle.
Fetch(st, req, where) == [st EXCEPT !.sent = Append(@, req), !.pc = where]

(* --------------------- src/api/salesforce.js ("vercel") ----------------- *)
ConfigError == [code |-> Some("CONFIG_ERROR"), status |-> Some(500)]
AuthError == [code |-> Some("AUTH_ERROR"), status |-> Some(401)]
QueryError(status) == [code |-> Some("QUERY_ERROR"), status |-> Some(status)]
\* A TypeError, a SyntaxError of response.json(), a rejected fetch: an Error
\* with neither code nor status.
RuntimeError == [code |-> None, status |-> None]

\* The catch block of handler.
handlerCatch(st, error) ==
    Send(st, ErrorEnvelope(
        IF IsSome(error.status) /\ error.status[1] # 0 THEN error.status[1] ELSE 500,
        IF Truthy(error.code) THEN error.code[1] ELSE "UNKNOWN_ERROR"))

\* !SF_CLIENT_ID || !SF_CLIENT_SECRET || !SF_REFRESH_TOKEN
CredentialsMissing ==
    ~env["SF_CLIENT_ID"] \/ ~env["SF_CLIENT_SECRET"] \/ ~env["SF_REFRESH_TOKEN"]

\* The page's records put in front of the accumulator instead of behind it.
Accumulate_prepend(all, data) == (IF data.hasRecords THEN data.records ELSE << >>) \o all
\* allRecords.concat(data.records || [])
Accumulate(all, data) == all \o (IF data.hasRecords THEN data.records ELSE << >>)

\* data.nextRecordsUrl ? `${SF_INSTANCE_URL}${data.nextRecordsUrl}` : null
NextUrl(data) ==
    IF Truthy(data.next) THEN Some(EnvText("SF_INSTANCE_URL") \o data.next[1]) ELSE None

\* The head of the while loop of querySalesforce; when the loop ends, the
\* return, transformData and the success response of handler.
querySalesforceLoop(st) ==
    IF Truthy(st.nextRecordsUrl)
    THEN Fetch(st, QueryGet(st.nextRecordsUrl[1], st.accessToken), "awaitPage")
    ELSE Send(st, SuccessEnvelope(transformData(st.allRecords, TimestampZone("vercel", processZone))))

\* querySalesforce up to its first fetch.
querySalesforce(st) ==
    IF ~env["SF_INSTANCE_URL"] THEN handlerCatch(st, ConfigError)
    ELSE querySalesforceLoop([st EXCEPT !.allRecords = << >>,
                                        !.nextRecordsUrl = Some(QueryUrl)])

\* refreshAccessToken up to its fetch.
refreshAccessToken(st) ==
    IF CredentialsMissing THEN handlerCatch(st, ConfigError)
    ELSE Fetch(st, TokenPost, "awaitToken")

\* handler up to its first await.
handler(st) ==
    IF st.method # "GET" THEN Send(st, ErrorEnvelope(405, "METHOD_NOT_ALLOWED"))
    ELSE LET st1 == [st EXCEPT !.headers = CorsVercel]
         IN  IF st1.method = "OPTIONS" THEN Send(st1, EmptyResponse(200))
             ELSE refreshAccessToken(st1)

\* refreshAccessToken from the settled fetch to its return, then handler's
\* call of querySalesforce.
refreshAccessTokenSettled(st, reply) ==
    IF reply.kind = "rejected" THEN handlerCatch(st, RuntimeError)
    ELSE IF ~Ok(reply.status)
    THEN \* errorData is {} for a body that is not JSON; null.error_description throws
         IF reply.kind = "null" THEN handlerCatch(st, RuntimeError)
         ELSE handlerCatch(st, AuthError)
    ELSE IF reply.kind # "object" THEN handlerCatch(st, RuntimeError)
    ELSE querySalesforce([st EXCEPT !.accessToken = reply.token])

\* The body of the while loop of querySalesforce from the settled fetch on.
querySalesforceSettled(st, reply) ==
    IF reply.kind = "rejected" THEN handlerCatch(st, RuntimeError)
    ELSE IF ~Ok(reply.status)
    THEN IF reply.kind = "null" THEN handlerCatch(st, RuntimeError)
         ELSE handlerCatch(st, QueryError(reply.status))
    ELSE IF reply.kind # "object" THEN handlerCatch(st, RuntimeError)
    ELSE querySalesforceLoop([st EXCEPT !.allRecords = Accumulate(@, reply),
                                        !.nextRecordsUrl = NextUrl(reply)])

(* --------------------------- src/server.js ("local") -------------------- *)
\* The catch block of handleSalesforceAPI.
serverCatch(st) == Send(st, ErrorEnvelope(500, "API_ERROR"))

\* The head of the while loop of handleSalesforceAPI; when the loop ends,
\* the map over allRecords and the success response.
handleSalesforceAPILoop(st) ==
    IF Truthy(st.nextRecordsUrl)
    THEN Fetch(st, QueryGet(st.nextRecordsUrl[1], st.accessToken), "awaitPage")
    ELSE Send(st, SuccessEnvelope(transformData(st.allRecords, TimestampZone("local", processZone))))

\* handleSalesforceAPI up to its first fetch: no check of the configuration.
handleSalesforceAPI(st) == Fetch(st, TokenPost, "awaitToken")

\* The http.createServer callback, for a request to /api/salesforce.
serverCallback(st) ==
    LET st1 == [st EXCEPT !.headers = CorsLocal]
    IN  IF st1.method = "OPTIONS" THEN Send(st1, EmptyResponse(200))
        ELSE handleSalesforceAPI(st1)

\* From the settled token fetch to the first page fetch: the status is not
\* read, the body decides.
handleTokenSettled(st, reply) ==
    IF reply.kind # "object" THEN serverCatch(st)
    ELSE IF ~Truthy(reply.token) THEN serverCatch(st)
    ELSE handleSalesforceAPILoop([st EXCEPT !.accessToken = reply.token,
                                            !.allRecords = << >>,
                                            !.nextRecordsUrl = Some(QueryUrl)])

\* The body of the while loop from the settled page fetch on.
handlePageSettled(st, reply) ==
    IF reply.kind # "object" THEN serverCatch(st)
    ELSE handleSalesforceAPILoop(
             [st EXCEPT !.allRecords = IF reply.hasRecords THEN @ \o reply.records ELSE @,
                        !.nextRecordsUrl = NextUrl(reply)])

(* ------------------------------ actions -------------------------------- *)
Locals(r) ==
    [pc |-> pc[r], method |-> method[r], accessToken |-> accessToken[r],
     allRecords |-> allRecords[r], nextRecordsUrl |-> nextRecordsUrl[r],
     headers |-> headers[r], out |-> out[r], sent |-> sent[r]]

\* The actions bind the locals a segment leaves with \E st \in { ... }, which
\* evaluates the segment once.
\* The accumulator kept in one place for every run.
Commit_sharedAccumulator(r, st) ==
    /\ pc' = [pc EXCEPT ![r] = st.pc]
    /\ method' = [method EXCEPT ![r] = st.method]
    /\ accessToken' = [accessToken EXCEPT ![r] = st.accessToken]
    /\ allRecords' = [q \in Runs |-> st.allRecords]
    /\ nextRecordsUrl' = [nextRecordsUrl EXCEPT ![r] = st.nextRecordsUrl]
    /\ headers' = [headers EXCEPT ![r] = st.headers]
    /\ out' = [out EXCEPT ![r] = st.out]
    /\ sent' = [sent EXCEPT ![r] = st.sent]
Commit(r, st) ==
    /\ pc' = [pc EXCEPT ![r] = st.pc]
    /\ method' = [method EXCEPT ![r] = st.method]
    /\ accessToken' = [accessToken EXCEPT ![r] = st.accessToken]
    /\ allRecords' = [allRecords EXCEPT ![r] = st.allRecords]
    /\ nextRecordsUrl' = [nextRecordsUrl EXCEPT ![r] = st.nextRecordsUrl]
    /\ headers' = [headers EXCEPT ![r] = st.headers]
    /\ out' = [out EXCEPT ![r] = st.out]
    /\ sent' = [sent EXCEPT ![r] = st.sent]

\* A request with method m reaches the endpoint and starts run r.
Request(r, m) ==
    /\ r \in callers /\ pc[r] = "idle"
    /\ pc' = [pc EXCEPT ![r] = "called"]
    /\ method' = [method EXCEPT ![r] = m]
    /\ UNCHANGED << accessToken, allRecords, nextRecordsUrl, headers, out, sent >>
    /\ UNCHANGED << deployVars, netVars, transformVars >>

VercelCall(r) ==
    /\ variant = "vercel" /\ pc[r] = "called"
    /\ \E st \in { handler(Locals(r)) } : Commit(r, st)
    /\ UNCHANGED << deployVars, netVars, transformVars >>

VercelTokenSettled(r) ==
    /\ variant = "vercel" /\ pc[r] = "awaitToken" /\ IsSome(inbox[r])
    /\ \E st \in { refreshAccessTokenSettled(Locals(r), inbox[r][1]) } : Commit(r, st)
    /\ inbox' = [inbox EXCEPT ![r] = None]
    /\ UNCHANGED << tokenReply, pageReplies, served, cleanPages, allContinued, lastContinued,
                    failedStatus, sawFailure >>
    /\ UNCHANGED << deployVars, transformVars >>

VercelPageSettled(r) ==
    /\ variant = "vercel" /\ pc[r] = "awaitPage" /\ IsSome(inbox[r])
    /\ \E st \in { querySalesforceSettled(Locals(r), inbox[r][1]) } : Commit(r, st)
    /\ inbox' = [inbox EXCEPT ![r] = None]
    /\ UNCHANGED << tokenReply, pageReplies, served, cleanPages, allContinued, lastContinued,
                    failedStatus, sawFailure >>
    /\ UNCHANGED << deployVars, transformVars >>

LocalCall(r) ==
    /\ variant = "local" /\ pc[r] = "called"
    /\ \E st \in { serverCallback(Locals(r)) } : Commit(r, st)
    /\ UNCHANGED << deployVars, netVars, transformVars >>

LocalTokenSettled(r) ==
    /\ variant = "local" /\ pc[r] = "awaitToken" /\ IsSome(inbox[r])
    /\ \E st \in { handleTokenSettled(Locals(r), inbox[r][1]) } : Commit(r, st)
    /\ inbox' = [inbox EXCEPT ![r] = None]
    /\ UNCHANGED << tokenReply, pageReplies, served, cleanPages, allContinued, lastContinued,
                    failedStatus, sawFailure >>
    /\ UNCHANGED << deployVars, transformVars >>

LocalPageSettled(r) ==
    /\ variant = "local" /\ pc[r] = "awaitPage" /\ IsSome(inbox[r])
    /\ \E st \in { handlePageSettled(Locals(r), inbox[r][1]) } : Commit(r, st)
    /\ inbox' = [inbox EXCEPT ![r] = None]
    /\ UNCHANGED << tokenReply, pageReplies, served, cleanPages, allContinued, lastContinued,
                    failedStatus, sawFailure >>
    /\ UNCHANGED << deployVars, transformVars >>

\* The token endpoint answers the POST of run r.
TokenReply(r, reply) ==
    /\ pc[r] = "awaitToken" /\ inbox[r] = None
    /\ inbox' = [inbox EXCEPT ![r] = Some(reply)]
    /\ tokenReply' = [tokenReply EXCEPT ![r] = Some(reply)]
    /\ sawFailure' = [sawFailure EXCEPT ![r] = @ \/ ~Ok(reply.status)]
    /\ UNCHANGED << pageReplies, served, cleanPages, allContinued, lastContinued, failedStatus >>
    /\ UNCHANGED << deployVars, runVars, transformVars >>

\* The query endpoint answers the pending GET of run r.
PageReply(r, reply) ==
    /\ pc[r] = "awaitPage" /\ inbox[r] = None
    /\ inbox' = [inbox EXCEPT ![r] = Some(reply)]
    /\ pageReplies' = [pageReplies EXCEPT ![r] = @ + 1]
    /\ served' = [served EXCEPT ![r] = @ + Len(reply.records)]
    /\ cleanPages' = [cleanPages EXCEPT ![r] = @ /\ Ok(reply.status) /\ reply.kind = "object"]
    /\ allContinued' = [allContinued EXCEPT ![r] =
                            @ /\ Ok(reply.status) /\ reply.kind = "object" /\ Truthy(reply.next)]
    /\ lastContinued' = [lastContinued EXCEPT ![r] = Truthy(reply.next)]
    /\ failedStatus' = [failedStatus EXCEPT ![r] =
                            IF @ = 0 /\ ~Ok(reply.status) THEN reply.status ELSE @]
    /\ sawFailure' = [sawFailure EXCEPT ![r] = @ \/ ~Ok(reply.status)]
    /\ UNCHANGED tokenReply
    /\ UNCHANGED << deployVars, runVars, transformVars >>

\* The pending fetch of run r rejects (no response arrives).
NetworkFailure(r) ==
    /\ pc[r] \in {"awaitToken", "awaitPage"} /\ inbox[r] = None
    /\ inbox' = [inbox EXCEPT ![r] = Some(Rejected)]
    /\ cleanPages' = [cleanPages EXCEPT ![r] = FALSE]
    /\ allContinued' = [allContinued EXCEPT ![r] = FALSE]
    /\ UNCHANGED << tokenReply, pageReplies, served, lastContinued, failedStatus, sawFailure >>
    /\ UNCHANGED << deployVars, runVars, transformVars >>

(* --------------------------- specifications ---------------------------- *)
Environments ==
    { e \in [CredFields -> BOOLEAN] : Cardinality({f \in CredFields : ~e[f]}) <= MaxMissing }

IdleRuns ==
    /\ pc = [r \in Runs |-> "idle"]
    /\ method = [r \in Runs |-> "GET"]
    /\ accessToken = [r \in Runs |-> None]
    /\ allRecords = [r \in Runs |-> << >>]
    /\ nextRecordsUrl = [r \in Runs |-> None]
    /\ headers = [r \in Runs |-> {}]
    /\ out = [r \in Runs |-> << >>]
    /\ sent = [r \in Runs |-> << >>]
    /\ inbox = [r \in Runs |-> None]
    /\ tokenReply = [r \in Runs |-> None]
    /\ pageReplies = [r \in Runs |-> 0]
    /\ served = [r \in Runs |-> 0]
    /\ cleanPages = [r \in Runs |-> TRUE]
    /\ allContinued = [r \in Runs |-> TRUE]
    /\ lastContinued = [r \in Runs |-> FALSE]
    /\ failedStatus = [r \in Runs |-> 0]
    /\ sawFailure = [r \in Runs |-> FALSE]

Init ==
    /\ variant \in Variants
    /\ env \in Environments
    /\ processZone \in Zones
    /\ callers = {"r1"}
    /\ IdleRuns
    /\ tIn = << >> /\ tDate = << >> /\ tZone = "UTC" /\ tOut = None

Step(r) ==
    \/ \E m \in Methods : Request(r, m)
    \/ VercelCall(r)
    \/ VercelTokenSettled(r)
    \/ VercelPageSettled(r)
    \/ LocalCall(r)
    \/ LocalTokenSettled(r)
    \/ LocalPageSettled(r)

Remote(r) ==
    \/ \E reply \in TokenReplies(r) : TokenReply(r, reply)
    \/ \E reply \in PageReplies(r) : PageReply(r, reply)
    \/ NetworkFailure(r)

Next == \E r \in Runs : Step(r) \/ Remote(r)

Spec == Init /\ [][Next]_vars

\* The event loop runs a continuation once its await has settled, and the
\* runtime calls the handler for a request it has accepted.  Nothing obliges
\* the remote to answer.
FairSpec == Spec /\ \A r \in Runs : WF_vars(Step(r))

\* Two GET requests served together by one deployment with its configuration
\* complete: every interleaving of the steps of the two runs.
InitPair ==
    /\ variant \in Variants
    /\ env = [f \in CredFields |-> TRUE]
    /\ processZone = "UTC"
    /\ callers = Runs
    /\ IdleRuns
    /\ tIn = << >> /\ tDate = << >> /\ tZone = "UTC" /\ tOut = None

StepGet(r) ==
    \/ Request(r, "GET")
    \/ VercelCall(r)
    \/ VercelTokenSettled(r)
    \/ VercelPageSettled(r)
    \/ LocalCall(r)
    \/ LocalTokenSettled(r)
    \/ LocalPageSettled(r)

NextPair == \E r \in Runs : StepGet(r) \/ Remote(r)

SpecPair == InitPair /\ [][NextPair]_vars

(* ---------------------- the transformer on its own --------------------- *)
Years == {999, 2023, 2024}
IsoDate(y, m, d) == Pad4(y) \o "-" \o Pad2(m) \o "-" \o Pad2(d)

Amounts == {None} \cup { Some(a) : a \in (0 - MaxAmount)..MaxAmount }
CloseDates == {None, Some(""), Some("2023-07-20")}
Timestamps == {None, Some("2023-08-28T12:07:00.000+0000"),
               Some("2023-01-15T03:30:00.000+0000"), Some("not a date")}
StageNames == {None, Some(""), Some("Closed Won")}
Owners == {None, Some([Name |-> None]), Some([Name |-> Some("")]),
           Some([Name |-> Some("Ann")])}

\* Every combination of null and non-null fields.
ComboRecords ==
    { [Id |-> "006", Amount |-> a, CloseDate |-> c, Quote_sent_TImestamp_2__c |-> t,
       StageName |-> s, Owner |-> o] :
         a \in Amounts, c \in CloseDates, t \in Timestamps, s \in StageNames, o \in Owners }
\* A date, on a record with every other field null (i = 1) or set (i = 2).
DateRecord(i, y, m, d) ==
    [WithId(RawPool[i], "006") EXCEPT !.CloseDate = Some(IsoDate(y, m, d))]

InitTransform ==
    /\ variant = "vercel"
    /\ env = [f \in CredFields |-> TRUE]
    /\ processZone = "UTC"
    /\ callers = {}
    /\ IdleRuns
    /\ \/ tIn \in { << rec >> : rec \in ComboRecords } \cup { << >> } /\ tDate = << >>
       \/ \E i \in {1, 2}, y \in Years, m \in 1..12, d \in 1..31 :
             tIn = << DateRecord(i, y, m, d) >> /\ tDate = << y, m, d >>
    /\ tZone \in Zones
    /\ tOut = None

\* An application that writes the Stage default back into its input.
ApplyTransform_inPlace ==
    /\ Len(tOut) < MaxCalls
    /\ tOut' = Append(tOut, transformData(tIn, tZone))
    /\ tIn' = [i \in DOMAIN tIn |->
                 [tIn[i] EXCEPT !.StageName = Some(TransformRecord(tIn[i], tZone).Stage)]]
    /\ UNCHANGED << tDate, tZone >>
    /\ UNCHANGED << deployVars, runVars, netVars >>
\* transformData(tIn): records.map builds new objects and assigns to no field
\* of a record.
ApplyTransform ==
    /\ Len(tOut) < MaxCalls
    /\ tOut' = Append(tOut, transformData(tIn, tZone))
    /\ UNCHANGED << tIn, tDate, tZone >>
    /\ UNCHANGED << deployVars, runVars, netVars >>

NextTransform == ApplyTransform

SpecTransform == InitTransform /\ [][NextTransform]_vars

(* ------------------------------- claims -------------------------------- *)
Gets(r) == Cardinality({ i \in 1..Len(sent[r]) : sent[r][i].method = "GET" })
Posts(r) == Cardinality({ i \in 1..Len(sent[r]) : sent[r][i].method = "POST" })
\* The token reply of run r has been delivered and the run has acted on it.
TokenHandled(r) == IsSome(tokenReply[r]) /\ ~(pc[r] = "awaitToken" /\ IsSome(inbox[r]))

\* C1: a 2xx token reply whose JSON body has no access_token makes token
\* acquisition fail: the run ends with the error envelope and no token value
\* is passed on to the fetcher (no query request is issued).
C1_MissingTokenIsAuthError ==
    \A r \in Runs :
        ( /\ TokenHandled(r)
          /\ Ok(tokenReply[r][1].status)
          /\ tokenReply[r][1].kind = "object"
          /\ tokenReply[r][1].token = None )
        => /\ pc[r] = "done"
           /\ Gets(r) = 0
           /\ out[r][1].resp.body = "json" /\ ~out[r][1].resp.success
           /\ ~Ok(out[r][1].resp.status)

\* C2: a ConfigError for a missing credential field is raised before any
\* network call: when a run ends with the ConfigError envelope it has issued
\* no outbound request (neither the token POST nor a query GET).
C2_ConfigErrorBeforeAnyRequest ==
    \A r \in Runs :
        (pc[r] = "done" /\ out[r][1].resp.code = "CONFIG_ERROR") => sent[r] = << >>

\* C3: an OPTIONS request is answered with a success status and the CORS
\* headers and runs no pipeline stage; only a request whose method is neither
\* GET nor OPTIONS receives 405 with code METHOD_NOT_ALLOWED.
C3_OptionsIsPreflight ==
    \A r \in Runs :
        pc[r] = "done"
        => /\ method[r] = "OPTIONS"
                => /\ Ok(out[r][1].resp.status)
                   /\ CorsLocal \subseteq out[r][1].cors
                   /\ sent[r] = << >>
           /\ out[r][1].resp.status = 405 => method[r] \notin {"GET", "OPTIONS"}
           /\ out[r][1].resp.code = "METHOD_NOT_ALLOWED" => out[r][1].resp.status = 405

\* C4: once a page request has been answered with a non-2xx status, the run
\* ends with the QueryError envelope carrying that status, and no record of
\* an earlier page is in the response.
C4_FailedPageIsQueryError ==
    \A r \in Runs :
        (failedStatus[r] # 0 /\ inbox[r] = None)
        => /\ pc[r] = "done"
           /\ out[r][1].resp = ErrorEnvelope(failedStatus[r], "QUERY_ERROR")

\* C5: while every page so far was successful, the accumulator is the
\* concatenation of the pages' records in request order; after a page with a
\* continuation path exactly one more request is out, and after the first
\* page without one the run has issued as many requests as pages and
\* returns all their records.
C5_PagesConcatenated ==
    \A r \in Runs :
        (cleanPages[r] /\ pageReplies[r] >= 1 /\ inbox[r] = None)
        => /\ allRecords[r] = RawSlice(r, 0, served[r])
           /\ IF lastContinued[r]
              THEN /\ pc[r] = "awaitPage"
                   /\ Gets(r) = pageReplies[r] + 1
                   /\ out[r] = << >>
              ELSE /\ pc[r] = "done"
                   /\ Gets(r) = pageReplies[r]
                   /\ Len(out[r]) = 1
                   /\ out[r][1].resp.success
                   /\ out[r][1].resp.recordCount = served[r]

\* Pages of sizes 2, 2, 1 in some order: three pages, five records.
C5_ThreePagesFiveRecords ==
    \E r \in Runs :
        /\ cleanPages[r] /\ pageReplies[r] = 3 /\ served[r] = 5
        /\ pc[r] = "done"
        /\ Len(allRecords[r]) = 5
        /\ allRecords[r][5].Id = r \o "-5"
        /\ out[r][1].resp.success

\* A page reply that ends the pagination: a 2xx JSON object without a
\* continuation path, or a reply with a non-2xx status.
TerminalPageDelivered(r) ==
    /\ pc[r] = "awaitPage" /\ IsSome(inbox[r])
    /\ inbox[r][1].kind # "rejected"
    /\ \/ ~Ok(inbox[r][1].status)
       \/ Ok(inbox[r][1].status) /\ inbox[r][1].kind = "object" /\ ~Truthy(inbox[r][1].next)

\* C6: once the remote has returned a successful page without continuation,
\* or a failing page, the run eventually responds; and as long as every page
\* was successful and carried a continuation path the run has not responded
\* and has one more page request out (the client caps nothing).
C6_TerminationDependsOnServer ==
    /\ \A r \in Runs : TerminalPageDelivered(r) ~> (Len(out[r]) = 1)
    /\ [](\A r \in Runs :
            (allContinued[r] /\ pageReplies[r] >= 1 /\ inbox[r] = None)
            => /\ out[r] = << >>
               /\ pc[r] = "awaitPage"
               /\ Gets(r) = pageReplies[r] + 1)

\* C7: once the token endpoint has answered with a non-2xx status, the run
\* has ended with the 401 AuthError envelope and has issued no query request.
C7_TokenFailureIs401 ==
    \A r \in Runs :
        (TokenHandled(r) /\ ~Ok(tokenReply[r][1].status))
        => /\ pc[r] = "done"
           /\ Gets(r) = 0
           /\ out[r][1].resp = ErrorEnvelope(401, "AUTH_ERROR")

\* C8: no step makes a run POST to the token endpoint a second time, and
\* once a reply with a non-2xx status has arrived no step issues another
\* outbound request of that run.
C8_NoRetries ==
    [][\A r \in Runs :
          /\ Posts(r)' <= 1
          /\ sawFailure[r] => sent'[r] = sent[r]]_vars

AllNullRecord == WithId(RawPool[1], "006")
OutputKeys ==
    {"Amount", "Close Date", "Quote sent TImestamp 2", "Stage", "Opportunity Owner",
     "Close Month"}

\* C9: transformData yields, for every input record, a record of exactly
\* the six output keys, each a string; a record with every field but Id null
\* maps to "0", "", "", "", "Unknown", "".
C9_TransformTotal ==
    IsSome(tOut)
    => /\ Len(tOut[1]) = Len(tIn)
       /\ \A i \in 1..Len(tIn) :
            /\ { OutputKey[k] : k \in DOMAIN tOut[1][i] } = OutputKeys
            /\ \A k \in DOMAIN tOut[1][i] : tOut[1][i][k] \in STRING
            /\ tIn[i] = AllNullRecord
                 => tOut[1][i] = [Amount |-> "0", CloseDate |-> "", QuoteSent |-> "",
                                  Stage |-> "", Owner |-> "Unknown", CloseMonth |-> ""]

C9_AllNullDefaults ==
    /\ IsSome(tOut) /\ tIn = << AllNullRecord >>
    /\ tOut[1][1].Amount = "0" /\ tOut[1][1].Owner = "Unknown"

\* C10: a CloseDate written YYYY-MM-DD from year y, month m, day d gives
\* Close Date m/d/YYYY and Close Month m/1/YYYY, m and d without leading
\* zeros and the year as written.
C10_CloseDateFormat ==
    (IsSome(tOut) /\ tDate # << >>)
    => LET y == tDate[1]
           m == tDate[2]
           d == tDate[3]
       IN  /\ tOut[1][1].CloseDate = ToString(m) \o "/" \o ToString(d) \o "/" \o Pad4(y)
           /\ tOut[1][1].CloseMonth = ToString(m) \o "/1/" \o Pad4(y)

C10_July20 ==
    /\ IsSome(tOut) /\ tDate = << 2023, 7, 20 >>
    /\ tIn[1].CloseDate = Some("2023-07-20")
    /\ tOut[1][1].CloseDate = "7/20/2023"
    /\ tOut[1][1].CloseMonth = "7/1/2023"

\* C11: the timestamp field of every record of a success response is the
\* rendering of the record's instant in the Eastern US zone, whatever the
\* zone of the process; "2023-08-28T12:07:00.000+0000" is "8/28/2023, 8:07 AM".
C11_TimestampInEasternZone ==
    \A r \in Runs :
        (pc[r] = "done" /\ out[r][1].resp.success)
        => \A i \in 1..Len(out[r][1].resp.data) :
              /\ out[r][1].resp.data[i].QuoteSent
                    = formatTimestamp(allRecords[r][i].Quote_sent_TImestamp_2__c,
                                      "America/New_York")
              /\ allRecords[r][i].Quote_sent_TImestamp_2__c
                    = Some("2023-08-28T12:07:00.000+0000")
                 => out[r][1].resp.data[i].QuoteSent = "8/28/2023, 8:07 AM"

\* C12: with two runs in progress together, the accumulator of each run is
\* at every moment the records the remote has put on that run's own pages, in
\* the order of its own requests, and the data of its success response is the
\* transform of exactly those records.
C12_RunsShareNothing ==
    \A r \in Runs :
        /\ Len(allRecords[r]) <= served[r]
        /\ allRecords[r] = RawSlice(r, 0, Len(allRecords[r]))
        /\ (pc[r] = "done" /\ out[r][1].resp.success)
           => out[r][1].resp.data
                 = transformData(RawSlice(r, 0, served[r]),
                                 TimestampZone(variant, processZone))

\* One run has answered with its two pages while the other is between its
\* first and its second page.
C12_OneDoneOneMidway ==
    /\ pc["r1"] = "done" /\ out["r1"][1].resp.success
    /\ out["r1"][1].resp.recordCount = 2 /\ pageReplies["r1"] = 2
    /\ pc["r2"] = "awaitPage" /\ Len(allRecords["r2"]) = 1
    /\ allRecords["r2"][1].Id = "r2-1"

\* C13: every run that has got past the configuration check has POSTed to
\* the token endpoint exactly once, first of all its requests, and every
\* query request of a run carries the value its own exchange returned as
\* bearer credential (two runs: two POSTs, each run its own token).
C13_FreshTokenPerRun ==
    \A r \in Runs :
        /\ pc[r] \notin {"idle", "called"}
           => /\ Posts(r) = 1
              /\ sent[r][1] = TokenPost
        /\ \A i \in 1..Len(sent[r]) :
              sent[r][i].method = "GET"
              => /\ IsSome(tokenReply[r])
                 /\ sent[r][i].auth = Bearer(tokenReply[r][1].token)

\* Both runs have exchanged a token and queried with it.
C13_TwoRunsTwoTokens ==
    /\ \A r \in Runs : Posts(r) = 1 /\ Gets(r) >= 1
    /\ sent["r1"][2].auth = "Bearer token-r1"
    /\ sent["r2"][2].auth = "Bearer token-r2"

C15_StrictlySequential ==
    [][\A r \in Runs :
          sent'[r] # sent[r]
          => /\ Len(sent'[r]) = Len(sent[r]) + 1
             /\ SubSeq(sent'[r], 1, Len(sent[r])) = sent[r]
             /\ pc[r] = "called" \/ IsSome(inbox[r])
             /\ LET req == sent'[r][Len(sent'[r])]
                IN  IF sent[r] = << >> THEN req = TokenPost
                    ELSE /\ req.method = "GET"
                         /\ inbox[r][1].kind = "object"
                         /\ IF pc[r] = "awaitToken" THEN req.url = QueryUrl
                            ELSE /\ Ok(inbox[r][1].status)
                                 /\ Truthy(inbox[r][1].next)
                                 /\ req.url = EnvText("SF_INSTANCE_URL")
                                                 \o inbox[r][1].next[1]]_vars

\* C16: in every success response recordCount is the length of data and the
\* number of records on all the pages the run fetched, and data[i] is the
\* transform of the i-th record fetched.
C16_ResponseMatchesFetched ==
    \A r \in Runs :
        (pc[r] = "done" /\ out[r][1].resp.success)
        => /\ out[r][1].resp.recordCount = Len(out[r][1].resp.data)
           /\ Len(out[r][1].resp.data) = served[r]
           /\ \A i \in 1..served[r] :
                 out[r][1].resp.data[i]
                    = TransformRecord(RawOf(r, i), TimestampZone(variant, processZone))

\* Three pages with five records answered, the second record the one with
\* every field set.
C16_FiveRecordsAnswered ==
    \E r \in Runs :
        /\ pc[r] = "done" /\ out[r][1].resp.success
        /\ pageReplies[r] = 3 /\ out[r][1].resp.recordCount = 5
        /\ out[r][1].resp.data[2].Owner = "Ann"
        /\ out[r][1].resp.data[5].CloseDate = "7/20/2023"

\* C17: a run that has ended has sent exactly one response and a run that
\* has not ended none; an envelope with success true has status 200 and one
\* with success false a status outside 2xx; and the step that sends a success
\* response acts on a 2xx page response without continuation path, in a run
\* whose token exchange was answered 2xx with an access token.
C17_OneResponseAgreesWithStatus ==
    /\ [](\A r \in Runs :
            /\ Len(out[r]) = (IF pc[r] = "done" THEN 1 ELSE 0)
            /\ (pc[r] = "done" /\ out[r][1].resp.body = "json")
               => IF out[r][1].resp.success
                  THEN out[r][1].resp.status = 200
                  ELSE ~Ok(out[r][1].resp.status))
    /\ [][\A r \in Runs :
            (out'[r] # out[r] /\ out'[r][1].resp.success)
            => /\ pc[r] = "awaitPage" /\ IsSome(inbox[r])
               /\ Ok(inbox[r][1].status) /\ inbox[r][1].kind = "object"
               /\ ~Truthy(inbox[r][1].next)
               /\ Ok(tokenReply[r][1].status) /\ Truthy(tokenReply[r][1].token)]_vars

====
